---- MODULE Spec2Model ----
(***************************************************************************)
(* A model of docs/python/convertDoxygen.py, the driver script that turns  *)
(* Doxygen XML into per-module docstring files.  The script is one         *)
(* sequential program; the state is its module-level variables, the files  *)
(* it reads and writes (input XML, <input>.pickle caches, output files),   *)
(* and its position (pc).  Strings are sequences of one-character strings. *)
(***************************************************************************)
EXTENDS Integers, Sequences, FiniteSets

VARIABLES
    xml_file,            \* --input / -i            (line 31)
    xml_index_file,      \* --inputIndex            (line 33)
    output_file,         \* --output / -o           (line 34)
    output_format,       \* --format / -f           (line 35)
    use_cached_parsing,  \* --cacheParsing / -c     (line 38)
    help_flag,           \* --help / -h             (line 42)
    packageName,         \* --package / -p          (line 45)
    modules,             \* --module / -m           (line 46)
    module_list,         \* line 53
    output_files,        \* lines 54-64
    pickle_path,         \* lines 104-107
    docList,             \* line 102
    tree,                \* what the Parser object holds after a parse
    writer,              \* the Writer of the current loop iteration
    idx,                 \* position of the for loop of line 134 (1-based)
    pc,                  \* position in the script
    cause,               \* why the run ended fatally
    xmls,                \* disk: content of each input path
    pickles,             \* disk: the existing cache files, path -> byte stream
    outfiles,            \* disk: the existing output files, path -> what wrote it
    run,                 \* number of the current invocation
    stored,              \* ghost: which invocation wrote each cache file
    log                  \* ghost: the calls the current invocation made, in order

argvars == <<xml_file, xml_index_file, output_file, output_format,
             use_cached_parsing, help_flag, packageName, modules>>
progvars == <<module_list, output_files, pickle_path, docList, tree, writer, idx>>
diskvars == <<xmls, pickles, outfiles>>
vars == <<argvars, progvars, diskvars, pc, cause, run, stored, log>>

-----------------------------------------------------------------------------
(* Bounds *)
MaxModulesLen == 3
MaxRuns == 2

-----------------------------------------------------------------------------
(* Python values *)

\* None: an option that was not given, an unset docList.  A one-token
\* sequence, so that it compares with strings and lists.
None == <<"None">>

Truthy(s) == s # None /\ s # <<>>

\* str.endswith
EndsWith(s, suf) ==
    /\ Len(s) >= Len(suf)
    /\ SubSeq(s, Len(s) - Len(suf) + 1, Len(s)) = suf

\* str.split(sep) for a one-character separator
RECURSIVE Split(_, _)
Split(s, sep) ==
    IF s = <<>> THEN << <<>> >>
    ELSE LET rest == Split(Tail(s), sep)
         IN  IF Head(s) = sep
               THEN << <<>> >> \o rest
               ELSE << <<Head(s)>> \o Head(rest) >> \o Tail(rest)

\* os.path.join of two components (posix)
PathJoin(a, b) ==
    IF b # <<>> /\ Head(b) = "/" THEN b
    ELSE IF a = <<>> \/ a[Len(a)] = "/" THEN a \o b
    ELSE a \o <<"/">> \o b

DotPy == <<".", "p", "y">>
DocFileName == <<"_", "_", "D", "O", "C", ".", "p", "y">>
PickleExt == <<".", "p", "i", "c", "k", "l", "e">>

\* all strings over chars of length lo..hi
StringsOver(chars, lo, hi) ==
    UNION { [1..n -> chars] : n \in lo..hi }

\* the function f with f[k] set to v, k added to its domain when new
Put(f, k, v) == [q \in DOMAIN f \cup {k} |-> IF q = k THEN v ELSE f[q]]
\* the function f without k
Drop(f, ks) == [q \in DOMAIN f \ ks |-> f[q]]

Range(s) == { s[k] : k \in DOMAIN s }
-----------------------------------------------------------------------------
(* The collaborators the script calls: doxygenlib.cdUtils (Usage, Error),  *)
(* doxygenlib.cdParser (Parser) and the writer plugins, and pickle.        *)

Paths == { <<"x">>, <<"y">> }                     \* input XML paths
PicklePaths == { p \o PickleExt : p \in Paths }
Contents == { "bad", "v1", "v2" }                 \* "bad": missing or malformed XML
Plugins == { "Docstring" }                        \* doxygenlib/cdWriterDocstring.py
Formats == { "Docstring", "Html" }

\* Parser.parse / Parser.parseDoxygenIndexFile: false on a missing or
\* malformed file; otherwise the parser holds the tree of that input.
ParseOk(content) == content # "bad"
ParsedTree(mode, content) == <<mode, content>>

\* Parser.traverse: the ordered DocElement list of the tree the parser holds
DocElements(t) ==
    IF t[1] = "index"
      THEN (IF t[2] = "v1" THEN <<"ns", "cls">> ELSE <<"ns", "cls", "fn">>)
      ELSE (IF t[2] = "v1" THEN <<"cls">> ELSE <<"fn", "cls">>)

\* pickle.dump: the byte stream of an object (None, or a list of elements);
\* a stream ends with the STOP opcode "."
PickleDumps(obj) ==
    IF obj = None THEN <<"N", ".">> ELSE <<"(">> \o obj \o <<"l", ".">>

\* pickle.load: <<"ok", object>>, or <<"raise">> on a stream that is not a
\* complete pickle (empty, truncated)
PickleLoads(s) ==
    IF s = <<"N", ".">> THEN <<"ok", None>>
    ELSE IF Len(s) >= 3 /\ s[1] = "(" /\ s[Len(s) - 1] = "l" /\ s[Len(s)] = "."
      THEN <<"ok", SubSeq(s, 2, Len(s) - 2)>>
    ELSE <<"raise">>

\* os.path.isfile
IsFile(disk, path) == path \in DOMAIN disk

\* cdUtils.Usage / cdUtils.Error: print and exit
Usage ==
    /\ pc' = "fatal"
    /\ cause' = "usage"
Error(msg) ==
    /\ pc' = "fatal"
    /\ cause' = msg

\* an exception nothing catches ends the script with a traceback
Uncaught(what) ==
    /\ pc' = "fatal"
    /\ cause' = what

Goto(label) ==
    /\ pc' = label
    /\ cause' = cause

Called(e) == log' = Append(log, e)

-----------------------------------------------------------------------------
(* The script's own computations *)

\* line 42: the condition under which Usage() is called
UsageNeeded ==
    \/ ~(Truthy(xml_file) \/ Truthy(xml_index_file))
    \/ ~Truthy(output_file)
    \/ help_flag

\* line 53: module_list = [x for x in modules.split(",") if x]
ModuleList(m) == SelectSeq(Split(m, ","), LAMBDA x : x # <<>>)

\* the condition of line 56 with "or" for "and"
ModuleOutputFileOr(moduleName, mlist, out) ==
    IF Len(mlist) = 1 \/ EndsWith(out, DotPy)
      THEN out
      ELSE PathJoin(PathJoin(out, moduleName), DocFileName)

\* lines 56-63: the output file of one module
ModuleOutputFile(moduleName, mlist, out) ==
    IF Len(mlist) = 1 /\ EndsWith(out, DotPy)
      THEN out
      ELSE PathJoin(PathJoin(out, moduleName), DocFileName)

\* lines 54-64: output_files, one per module, in order
OutputFiles(mlist, out) ==
    [k \in 1..Len(mlist) |-> ModuleOutputFile(mlist[k], mlist, out)]

\* a deletion loop that stops after the first output file
RemovedFirstOnly(paths, existing) ==
    IF paths # <<>> /\ Head(paths) \in existing THEN <<Head(paths)>> ELSE <<>>

\* lines 69-71: the files the deletion loop removes, in the order it removes
\* them (a path listed twice is gone the second time)
RECURSIVE Removed(_, _)
Removed(paths, existing) ==
    IF paths = <<>> THEN <<>>
    ELSE IF Head(paths) \in existing
      THEN <<Head(paths)>> \o Removed(Tail(paths), existing \ {Head(paths)})
      ELSE Removed(Tail(paths), existing)

\* a cache file always named after --input
PicklePathOfXmlFile == xml_file \o PickleExt

\* lines 104-107: the cache file of the run
PicklePath ==
    IF xml_index_file # None
      THEN xml_index_file \o PickleExt
      ELSE xml_file \o PickleExt

\* line 112: whether the cache is read at all
CacheConsulted == use_cached_parsing /\ IsFile(pickles, pickle_path)

\* a test that never finds docList set
AlwaysUnset(d) == TRUE

\* lines 121 and 144: the test "docList is None"
DocListUnset(d) == d = None

\* pickling the parser's tree instead of the traversed list
CacheContentTree == tree

\* a traversal for every module of the list whenever the input was parsed
TraversePerModule == tree # None

\* line 144: whether this iteration calls parser.traverse
TraverseNeeded == DocListUnset(docList)

\* line 149: the object that is pickled
CacheContent == docList

\* --output itself as the target of every generate call
GenerateTargetOutput == output_file

\* lines 134 and 150: module_output_file, the target of the generate call
GenerateTarget == output_files[idx]

\* line 134: zip stops at the shorter of the two lists
ZipLen == IF Len(module_list) <= Len(output_files)
            THEN Len(module_list) ELSE Len(output_files)

-----------------------------------------------------------------------------
(* The script, one action per step *)

\* lines 42-43
CheckUsage ==
    /\ pc = "usage"
    /\ IF UsageNeeded THEN Usage ELSE Goto("package")
    /\ UNCHANGED <<argvars, progvars, diskvars, run, stored, log>>

\* a package check that reports nothing
CheckPackageLax ==
    /\ pc = "package"
    /\ Goto("module")
    /\ UNCHANGED <<argvars, progvars, diskvars, run, stored, log>>

\* lines 45-48
CheckPackage ==
    /\ pc = "package"
    /\ IF ~Truthy(packageName) THEN Error("package") ELSE Goto("module")
    /\ UNCHANGED <<argvars, progvars, diskvars, run, stored, log>>

\* lines 49-50
CheckModule ==
    /\ pc = "module"
    /\ IF ~Truthy(modules) THEN Error("module") ELSE Goto("outputs")
    /\ UNCHANGED <<argvars, progvars, diskvars, run, stored, log>>

\* lines 53-65
BuildOutputFiles ==
    /\ pc = "outputs"
    /\ module_list' = ModuleList(modules)
    /\ output_files' = OutputFiles(module_list', output_file)
    /\ Goto("delete")
    /\ UNCHANGED <<argvars, pickle_path, docList, tree, writer, idx,
                   diskvars, run, stored, log>>

\* lines 67-71 (the loop as one step; os.remove is taken to succeed)
DeleteStale ==
    /\ pc = "delete"
    /\ LET gone == Removed(output_files, DOMAIN outfiles)
       IN  /\ outfiles' = Drop(outfiles, Range(gone))
           /\ log' = log \o [k \in 1..Len(gone) |-> <<"remove", gone[k]>>]
    /\ Goto("import")
    /\ UNCHANGED <<argvars, progvars, xmls, pickles, run, stored>>

\* lines 88-93 (lines 73-84 before it only extend sys.path and the DLL
\* search path, which no step below reads)
ImportPlugin ==
    /\ pc = "import"
    /\ IF output_format \in Plugins THEN Goto("parser") ELSE Error("plugin")
    /\ UNCHANGED <<argvars, progvars, diskvars, run, stored, log>>

\* lines 100-107
CreateParser ==
    /\ pc = "parser"
    /\ tree' = None
    /\ docList' = None
    /\ pickle_path' = PicklePath
    /\ Goto("readcache")
    /\ UNCHANGED <<argvars, module_list, output_files, writer, idx,
                   diskvars, run, stored, log>>

\* no except clause: the exception of the read leaves the script
OnCacheReadErrorPropagates ==
    /\ docList' = docList
    /\ Called(<<"load", pickle_path, "raise">>)
    /\ Uncaught("cacheread")

\* lines 117-119: the except clause
OnCacheReadError ==
    /\ docList' = docList
    /\ Called(<<"load", pickle_path, "raise">>)
    /\ Goto("parse")

\* lines 112-119; open() may fail whatever the file holds
ReadCache ==
    /\ pc = "readcache"
    /\ IF CacheConsulted
         THEN \E readable \in BOOLEAN :
                LET r == PickleLoads(pickles[pickle_path])
                IN  IF readable /\ r[1] = "ok"
                      THEN /\ docList' = r[2]
                           /\ Called(<<"load", pickle_path, "ok", r[2]>>)
                           /\ Goto("parse")
                      ELSE OnCacheReadError
         ELSE /\ UNCHANGED <<docList, log>>
              /\ Goto("parse")
    /\ UNCHANGED <<argvars, module_list, output_files, pickle_path, tree,
                   writer, idx, diskvars, run, stored>>

\* the parser's answer ignored
AfterParseIgnored(ok, what) == Goto("loop")

\* lines 123-124 and 126-127: what follows the parser's answer
AfterParse(ok, what) == IF ok THEN Goto("loop") ELSE Error(what)

\* lines 121-127
ParseInput ==
    /\ pc = "parse"
    /\ IF DocListUnset(docList)
         THEN IF xml_index_file # None
                THEN /\ tree' = ParsedTree("index", xmls[xml_index_file])
                     /\ Called(<<"parseDoxygenIndexFile", xml_index_file,
                                 ParseOk(xmls[xml_index_file])>>)
                     /\ AfterParse(ParseOk(xmls[xml_index_file]), "parse")
                ELSE /\ tree' = ParsedTree("file", xmls[xml_file])
                     /\ Called(<<"parse", xml_file, ParseOk(xmls[xml_file])>>)
                     /\ AfterParse(ParseOk(xmls[xml_file]), "parse")
         ELSE /\ UNCHANGED <<tree, log>>
              /\ Goto("loop")
    /\ UNCHANGED <<argvars, module_list, output_files, pickle_path, docList,
                   writer, idx, diskvars, run, stored>>

\* lines 134-140: next iteration, or the end of the loop; the Writer's
\* constructor raises when the package or module cannot be loaded
ConstructWriter ==
    /\ pc = "loop"
    /\ IF idx > ZipLen
         THEN /\ Goto("done")
              /\ UNCHANGED <<writer, log>>
         ELSE \E loadable \in BOOLEAN :
                IF loadable
                  THEN /\ writer' = <<packageName, module_list[idx], idx>>
                       /\ Called(<<"Writer", packageName, module_list[idx], TRUE>>)
                       /\ Goto("traverse")
                  ELSE /\ UNCHANGED writer
                       /\ Called(<<"Writer", packageName, module_list[idx], FALSE>>)
                       /\ Uncaught("writer")
    /\ UNCHANGED <<argvars, module_list, output_files, pickle_path, docList,
                   tree, idx, diskvars, run, stored>>

\* lines 144-146
Traverse ==
    /\ pc = "traverse"
    /\ IF TraverseNeeded
         THEN /\ docList' = DocElements(tree)
              /\ Called(<<"traverse", writer>>)
              /\ Goto("dump")
         ELSE /\ UNCHANGED <<docList, log>>
              /\ Goto("generate")
    /\ UNCHANGED <<argvars, module_list, output_files, pickle_path, tree,
                   writer, idx, diskvars, run, stored>>

\* lines 147-149; open() may fail (nothing written), and a dump that fails
\* after open() leaves a truncated file
WriteCache ==
    /\ pc = "dump"
    /\ IF use_cached_parsing
         THEN \E outcome \in {"ok", "open fails", "dump fails"} :
              LET stream == PickleDumps(CacheContent)
              IN  /\ Called(<<"dump", pickle_path, CacheContent, outcome>>)
                  /\ IF outcome = "ok"
                       THEN /\ pickles' = Put(pickles, pickle_path, stream)
                            /\ stored' = Put(stored, pickle_path,
                                   <<run, xml_file, xml_index_file, tree, docList>>)
                            /\ Goto("generate")
                     ELSE IF outcome = "open fails"
                       THEN /\ UNCHANGED <<pickles, stored>>
                            /\ Uncaught("cachewrite")
                     ELSE \E n \in 0..(Len(stream) - 1) :
                            /\ pickles' = Put(pickles, pickle_path, SubSeq(stream, 1, n))
                            /\ stored' = Drop(stored, {pickle_path})
                            /\ Uncaught("cachewrite")
         ELSE /\ UNCHANGED <<pickles, stored, log>>
              /\ Goto("generate")
    /\ UNCHANGED <<argvars, progvars, xmls, outfiles, run>>

\* line 150; generate may fail when the output path is not writable
Generate ==
    /\ pc = "generate"
    /\ \E writable \in BOOLEAN :
         IF writable
           THEN /\ outfiles' = Put(outfiles, GenerateTarget, run)
                /\ Called(<<"generate", writer, GenerateTarget, docList, TRUE>>)
                /\ idx' = idx + 1
                /\ Goto("loop")
           ELSE /\ UNCHANGED <<outfiles, idx>>
                /\ Called(<<"generate", writer, GenerateTarget, docList, FALSE>>)
                /\ Uncaught("generate")
    /\ UNCHANGED <<argvars, module_list, output_files, pickle_path, docList,
                   tree, writer, xmls, pickles, run, stored>>

Next ==
    \/ CheckUsage
    \/ CheckPackage
    \/ CheckModule
    \/ BuildOutputFiles
    \/ DeleteStale
    \/ ImportPlugin
    \/ CreateParser
    \/ ReadCache
    \/ ParseInput
    \/ ConstructWriter
    \/ Traverse
    \/ WriteCache
    \/ Generate
-----------------------------------------------------------------------------
(* Invocations *)

ModuleChars == { "a", "b", "," }
ModuleArgs == StringsOver(ModuleChars, 1, MaxModulesLen)
OutputArgs == { <<"d", "p", "y">>, <<"o", ".", "p", "y">> }
PackageArgs == { <<"p">> }

\* files an earlier build left: outputs (run 0) and foreign cache files
StaleOutputs ==
    { <<"o", ".", "p", "y">>,
      PathJoin(PathJoin(<<"d", "p", "y">>, <<"a">>), DocFileName),
      PathJoin(PathJoin(<<"d", "p", "y">>, <<"b">>), DocFileName) }
ForeignPickles == { <<>>, PickleDumps(None), PickleDumps(<<"old">>) }

\* the script's variables before its first statement
Fresh ==
    /\ module_list = <<>>
    /\ output_files = <<>>
    /\ pickle_path = None
    /\ docList = None
    /\ tree = None
    /\ writer = None
    /\ idx = 1
    /\ pc = "usage"
    /\ cause = "none"
    /\ log = <<>>

\* any command line, on a disk where an earlier build left its files
InitAnyArgs ==
    /\ xml_file \in Paths \cup {None}
    /\ xml_index_file \in Paths \cup {None}
    /\ output_file \in OutputArgs \cup {None}
    /\ output_format \in Formats
    /\ use_cached_parsing \in BOOLEAN
    /\ help_flag \in BOOLEAN
    /\ packageName \in PackageArgs \cup {None}
    /\ modules \in ModuleArgs \cup {None}
    /\ xmls = [p \in Paths |-> "v1"]
    /\ pickles = [p \in PicklePaths |-> PickleDumps(<<"old">>)]
    /\ outfiles = [p \in StaleOutputs |-> 0]

\* a complete command line for one or two modules, on any disk
InitAnyDisk ==
    /\ xml_file \in Paths \cup {None}
    /\ xml_index_file \in Paths \cup {None}
    /\ Truthy(xml_file) \/ Truthy(xml_index_file)
    /\ output_file \in OutputArgs
    /\ output_format \in Formats
    /\ use_cached_parsing \in BOOLEAN
    /\ help_flag = FALSE
    /\ packageName \in PackageArgs
    /\ modules \in { <<"a">>, <<"a", ",", "b">> }
    /\ xmls \in [Paths -> {"bad", "v1"}]
    /\ \E present \in SUBSET PicklePaths : pickles \in [present -> ForeignPickles]
    /\ \E present \in {{}, StaleOutputs} : outfiles = [p \in present |-> 0]

Init ==
    /\ InitAnyArgs \/ InitAnyDisk
    /\ run = 1
    /\ stored = << >>
    /\ Fresh

Spec == Init /\ [][Next]_vars

-----------------------------------------------------------------------------
(* Several invocations in a row, on the disk the earlier ones left *)

Ended == pc \in {"done", "fatal"}

\* the same build command again, with any input options and cache flag
Rerun ==
    /\ Ended
    /\ run < MaxRuns
    /\ run' = run + 1
    /\ xml_file' \in Paths \cup {None}
    /\ xml_index_file' \in Paths \cup {None}
    /\ use_cached_parsing' \in BOOLEAN
    /\ UNCHANGED <<output_file, output_format, help_flag, packageName, modules>>
    /\ module_list' = <<>>
    /\ output_files' = <<>>
    /\ pickle_path' = None
    /\ docList' = None
    /\ tree' = None
    /\ writer' = None
    /\ idx' = 1
    /\ pc' = "usage"
    /\ cause' = "none"
    /\ log' = <<>>
    /\ UNCHANGED <<diskvars, stored>>

\* between two invocations the content of an input file changes
EditInput ==
    /\ Ended
    /\ run < MaxRuns
    /\ \E p \in Paths :
         /\ xmls[p] = "v1"
         /\ xmls' = [xmls EXCEPT ![p] = "v2"]
    /\ UNCHANGED <<argvars, progvars, pickles, outfiles, pc, cause, run, stored, log>>

\* first invocation: a complete command line for two modules, a clean disk
InitRuns ==
    /\ xml_file \in Paths \cup {None}
    /\ xml_index_file \in Paths \cup {None}
    /\ output_file = <<"d", "p", "y">>
    /\ output_format = "Docstring"
    /\ use_cached_parsing \in BOOLEAN
    /\ help_flag = FALSE
    /\ packageName = <<"p">>
    /\ modules = <<"a", ",", "b">>
    /\ xmls = [p \in Paths |-> "v1"]
    /\ pickles = << >>
    /\ outfiles = << >>
    /\ run = 1
    /\ stored = << >>
    /\ Fresh

NextRuns ==
    \/ Next
    \/ Rerun
    \/ EditInput

SpecRuns == InitRuns /\ [][NextRuns]_vars

-----------------------------------------------------------------------------
(* What an invocation did, read from its log *)

Calls(op) == SelectSeq(log, LAMBDA e : e[1] = op)
IsParseCall(e) == e[1] \in {"parse", "parseDoxygenIndexFile"}
ParseCalls == SelectSeq(log, IsParseCall)
FirstCall(op) ==
    CHOOSE k \in DOMAIN log :
        log[k][1] = op /\ \A j \in 1..(k - 1) : log[j][1] # op

LoadRaisedAt(k) == log[k][1] = "load" /\ log[k][3] = "raise"
LoadedAt(k) == log[k][1] = "load" /\ log[k][3] = "ok"
ParseFailed == \E k \in DOMAIN log : IsParseCall(log[k]) /\ log[k][3] = FALSE

\* the input the run parses, and how
SourcePath == IF xml_index_file # None THEN xml_index_file ELSE xml_file
SourceMode == IF xml_index_file # None THEN "index" ELSE "file"
FreshList == DocElements(ParsedTree(SourceMode, xmls[SourcePath]))

\* the output files this invocation generated
WrittenByRun == { p \in DOMAIN outfiles : outfiles[p] = run }

-----------------------------------------------------------------------------
\* C1: when the cache file is consulted and reading or unpickling it raises,
\* the run goes on with docList unset and its next call is the full parse of
\* the input (parseDoxygenIndexFile for an index, parse otherwise); the run
\* never ends at the failed read.
C1_CorruptCacheFallsBack ==
    \A k \in DOMAIN log :
        LoadRaisedAt(k) =>
            IF k = Len(log)
              THEN pc = "parse" /\ docList = None
              ELSE /\ log[k + 1][1] =
                        (IF xml_index_file # None
                           THEN "parseDoxygenIndexFile" ELSE "parse")
                   /\ log[k + 1][2] = SourcePath

C1_Witness ==
    /\ \E k \in DOMAIN log : LoadRaisedAt(k)
    /\ pc = "done"
    /\ Calls("generate") # <<>>

\* C2: when the parser answers false, the run is over with the parse error,
\* and it has constructed no Writer, called neither traverse nor generate
\* and written no cache file.
C2_ParseFailureAborts ==
    ParseFailed =>
        /\ pc = "fatal"
        /\ cause = "parse"
        /\ Calls("Writer") = <<>>
        /\ Calls("traverse") = <<>>
        /\ Calls("dump") = <<>>
        /\ Calls("generate") = <<>>

C2_Witness == ParseFailed /\ pc = "fatal" /\ use_cached_parsing

\* C3 as stated: a run that ended fatally has generated no output at all.
C3_NoOutputAfterFatal == pc = "fatal" => WrittenByRun = {}

\* C3 amended: a run that ended fatally has generated exactly the outputs of
\* the modules handled before the one whose handling raised the error, and
\* none for that module or a later one; an error before the module loop
\* (missing input, plugin not found, parse failure) leaves none.
C3_OutputsOfEarlierModulesOnly ==
    pc = "fatal" =>
        LET n == Len(Calls("Writer"))
        IN  /\ WrittenByRun = { output_files[k] : k \in 1..(n - 1) }
            /\ \A k \in 1..Len(Calls("generate")) :
                   Calls("generate")[k][3] = output_files[k]
            /\ cause \in {"usage", "package", "module", "plugin", "parse"}
                   => n = 0 /\ WrittenByRun = {}

C3_Witness ==
    /\ pc = "fatal"
    /\ cause = "writer"
    /\ Len(module_list) = 2
    /\ WrittenByRun = { output_files[1] }

\* what C4 says of a run that loaded v from the cache
ReusedVerbatim(v) ==
    /\ ParseCalls = <<>>
    /\ Calls("traverse") = <<>>
    /\ Calls("dump") = <<>>
    /\ \A j \in DOMAIN log : log[j][1] = "generate" => log[j][4] = v

\* C4 as stated: whenever loading the cache file succeeds, nothing is parsed
\* or traversed, the cache is not rewritten and generate gets the loaded value.
C4_AnyLoadSkipsParsing ==
    \A k \in DOMAIN log : LoadedAt(k) => ReusedVerbatim(log[k][4])

\* C4 amended: whenever loading the cache file succeeds and yields a value
\* other than None, nothing is parsed or traversed, the cache file is not
\* rewritten and every generate call gets exactly the loaded list.
C4_ValidHitSkipsParsing ==
    \A k \in DOMAIN log :
        LoadedAt(k) /\ log[k][4] # None => ReusedVerbatim(log[k][4])

C4_Witness ==
    /\ \E k \in DOMAIN log : LoadedAt(k) /\ log[k][4] # None
    /\ pc = "done"
    /\ Len(Calls("generate")) = 2

-----------------------------------------------------------------------------
(* The cache file of the run, when an earlier invocation stored it:        *)
(* stored[path] = <<run, xml_file, xml_index_file, tree, docList>> of the  *)
(* invocation that wrote it                                                *)

StoredEarlier ==
    /\ pickle_path \in DOMAIN stored
    /\ stored[pickle_path][1] < run
StoredSource ==
    IF stored[pickle_path][3] # None
      THEN stored[pickle_path][3] ELSE stored[pickle_path][2]
StoredContent == stored[pickle_path][4][2]
StoredList == stored[pickle_path][5]

\* the run loaded a cache that an earlier run stored for the same input (the
\* same path, given as an index or as a single file as in this run), and the
\* input has not changed since
RoundTripCase ==
    /\ \E k \in DOMAIN log : LoadedAt(k)
    /\ StoredEarlier
    /\ StoredSource = SourcePath
    /\ stored[pickle_path][4][1] = SourceMode
    /\ StoredContent = xmls[SourcePath]

\* C5: a run that loads the cache which an earlier run with the same input
\* options wrote, the input unchanged, holds as docList and passes to every
\* generate call the list the earlier run got from traverse and passed to
\* generate, which is the list a fresh parse of the input yields.
C5_CacheRoundTrip ==
    RoundTripCase =>
        /\ docList = StoredList
        /\ \A j \in DOMAIN log : log[j][1] = "generate" => log[j][4] = StoredList
        /\ StoredList = FreshList

C5_Witness ==
    /\ RoundTripCase
    /\ pc = "done"
    /\ Len(Calls("generate")) = 2

\* C6 as stated: a stored list is reused only by a run with the same source
\* path and the same content as when it was stored.
C6_KeyedByPathAndContent ==
    (StoredEarlier /\ \E k \in DOMAIN log : LoadedAt(k)) =>
        /\ StoredSource = SourcePath
        /\ StoredContent = xmls[SourcePath]

\* C6 amended: the cache is keyed by the source path alone: a stored list is
\* reused only by a run whose source path is the one it was stored for (no
\* signature of the content is kept or compared).
C6_KeyedByPath ==
    (StoredEarlier /\ \E k \in DOMAIN log : LoadedAt(k)) =>
        StoredSource = SourcePath

\* a list stored before the input changed is reused after the change
C6_Witness ==
    /\ StoredEarlier
    /\ \E k \in DOMAIN log : LoadedAt(k)
    /\ StoredContent # xmls[SourcePath]
    /\ pc = "done"
    /\ Len(Calls("generate")) = 2

\* C7: with no input file, no --package or no --module the run never gets
\* past the argument checks: it has deleted, read, parsed and written
\* nothing, and when it has ended it ended with the matching error.
MissingInput ==
    \/ ~(Truthy(xml_file) \/ Truthy(xml_index_file))
    \/ ~Truthy(packageName)
    \/ ~Truthy(modules)

C7_MissingInputIsFatal ==
    MissingInput =>
        /\ pc \in {"usage", "package", "module", "fatal"}
        /\ pc = "fatal" => cause \in {"usage", "package", "module"}
        /\ log = <<>>
        /\ DOMAIN outfiles = StaleOutputs
        /\ pickles = [p \in PicklePaths |-> PickleDumps(<<"old">>)]

C7_Witness ==
    /\ ~Truthy(packageName)
    /\ Truthy(xml_file)
    /\ Truthy(output_file)
    /\ ~help_flag
    /\ pc = "fatal"
    /\ cause = "package"

\* C8: traverse is called at most once in a run: never after a cache hit,
\* and once, with the Writer of the first module, when generate is reached
\* without one; every generate call gets the same list; the cache file is
\* written at most once, only with caching enabled and no hit, and then
\* after the traversal and before the first generate call.
CacheHit == \E k \in DOMAIN log : LoadedAt(k) /\ log[k][4] # None

C8_TraverseOnce ==
    LET T == Calls("traverse")
        G == Calls("generate")
        D == Calls("dump")
    IN  /\ Len(T) <= 1
        /\ Len(D) <= 1
        /\ CacheHit => T = <<>> /\ D = <<>>
        /\ ~use_cached_parsing => D = <<>>
        /\ (~CacheHit /\ G # <<>>) =>
               /\ Len(T) = 1
               /\ T[1][2] = <<packageName, module_list[1], 1>>
               /\ G[1][4] = DocElements(tree)
        /\ \A j, k \in DOMAIN G : G[j][4] = G[k][4]
        /\ (use_cached_parsing /\ ~CacheHit /\ G # <<>>) =>
               /\ Len(D) = 1
               /\ D[1][4] = "ok"
               /\ D[1][3] = G[1][4]
               /\ FirstCall("traverse") < FirstCall("dump")
               /\ FirstCall("dump") < FirstCall("generate")

C8_Witness ==
    /\ ~CacheHit
    /\ use_cached_parsing
    /\ pc = "done"
    /\ Len(Calls("generate")) = 2
    /\ Len(Calls("traverse")) = 1

\* C9: once the deletion loop has run, so at plugin lookup, at parsing, at
\* every Writer construction and in a run that then ends fatally, no output
\* file of a module of the list is one that an earlier run left; and every
\* deletion comes before every other call of the run.
PastDeletion ==
    \/ pc \in {"import", "parser", "readcache", "parse", "loop", "traverse",
               "dump", "generate", "done"}
    \/ pc = "fatal" /\ cause \notin {"usage", "package", "module"}

C9_StaleOutputsRemovedFirst ==
    /\ PastDeletion =>
           \A k \in DOMAIN output_files :
               IsFile(outfiles, output_files[k]) => outfiles[output_files[k]] = run
    /\ \A j \in DOMAIN log :
           log[j][1] = "remove" => \A i \in 1..(j - 1) : log[i][1] = "remove"

C9_Witness ==
    /\ run = 2
    /\ Len(Calls("remove")) = 2
    /\ pc = "fatal"
    /\ cause = "writer"
    /\ Len(Calls("Writer")) = 2

\* the names of a comma-separated list, comma-joined again: what is left of
\* the list without its empty fields
RECURSIVE CommaJoin(_)
CommaJoin(names) ==
    IF names = <<>> THEN <<>>
    ELSE IF Len(names) = 1 THEN names[1]
    ELSE names[1] \o <<",">> \o CommaJoin(Tail(names))

RECURSIVE NoEmptyFields(_)
NoEmptyFields(s) ==
    IF s = <<>> THEN <<>>
    ELSE IF Head(s) = "," /\ (Len(s) = 1 \/ s[2] = ",") THEN NoEmptyFields(Tail(s))
    ELSE <<Head(s)>> \o NoEmptyFields(Tail(s))

TrimLeadingComma(s) == IF s # <<>> /\ Head(s) = "," THEN Tail(s) ELSE s

\* C10: a run that completes has called generate once per non-empty field of
\* --module, in the order of the list, each time with the Writer constructed
\* for that module and with that module's output path; the path is --output
\* itself when there is one module and --output ends with ".py", and
\* <output>/<module>/__DOC.py otherwise; distinct modules have distinct paths.
C10_GeneratePerModule ==
    pc = "done" =>
        LET G == Calls("generate")
            n == Len(module_list)
        IN  /\ CommaJoin(module_list) = TrimLeadingComma(NoEmptyFields(modules))
            /\ \A k \in 1..n : module_list[k] # <<>> /\ "," \notin Range(module_list[k])
            /\ Len(G) = n
            /\ \A k \in 1..n :
                   /\ G[k][2] = <<packageName, module_list[k], k>>
                   /\ G[k][3] =
                        (IF n = 1 /\ EndsWith(output_file, DotPy)
                           THEN output_file
                           ELSE output_file \o <<"/">> \o module_list[k]
                                    \o <<"/">> \o DocFileName)
                   /\ G[k][5] = TRUE
            /\ \A j, k \in 1..n :
                   (module_list[j] = module_list[k]) = (G[j][3] = G[k][3])

C10_Witness ==
    /\ pc = "done"
    /\ modules = <<"b", ",", "a">>
    /\ output_file = <<"o", ".", "p", "y">>
    /\ Len(Calls("generate")) = 2
====
